---------------------------- MODULE Spec2Model ----------------------------
(***************************************************************************)
(* The event dispatch engine of CloudBot (core/main.py): construction of   *)
(* an Input from a parsed line, the sieve pipeline, command / regex /      *)
(* event routing (main), the per-plugin Handler threads and the detached   *)
(* threads that execute run().                                             *)
(*                                                                         *)
(* Strings are sequences of one-character strings, so that lower(),        *)
(* strip() and the command regular expression are computed, not assumed.   *)
(***************************************************************************)
EXTENDS Integers, Sequences, FiniteSets, TLC

(***************************************************************************)
(* Bounds of the model.                                                    *)
(***************************************************************************)
\* number of calls of main() by the routing thread
MaxLines == 3
\* the same when two sieves are registered
MaxLinesSieved == 2
\* number of calls of main() shared by two concurrent routing threads
MaxLinesConcurrent == 2
\* number of dispatches main() makes in all
MaxEvents == 4

(***************************************************************************)
(* Strings.                                                                *)
(***************************************************************************)
Letters == {"a","b","c","d","e","f","g","h","i","j","k","l","m",
            "n","o","p","q","r","s","t","u","v","w","x","y","z"}

UpperToLower == [c \in {"A","B","C","D","E","F","G","H","I","J","K","L","M",
                        "N","O","P","Q","R","S","T","U","V","W","X","Y","Z"} |->
    CASE c = "A" -> "a" [] c = "B" -> "b" [] c = "C" -> "c" [] c = "D" -> "d"
      [] c = "E" -> "e" [] c = "F" -> "f" [] c = "G" -> "g" [] c = "H" -> "h"
      [] c = "I" -> "i" [] c = "J" -> "j" [] c = "K" -> "k" [] c = "L" -> "l"
      [] c = "M" -> "m" [] c = "N" -> "n" [] c = "O" -> "o" [] c = "P" -> "p"
      [] c = "Q" -> "q" [] c = "R" -> "r" [] c = "S" -> "s" [] c = "T" -> "t"
      [] c = "U" -> "u" [] c = "V" -> "v" [] c = "W" -> "w" [] c = "X" -> "x"
      [] c = "Y" -> "y" [] c = "Z" -> "z"]

\* str.lower()
Lower(s) == [i \in 1..Len(s) |->
               IF s[i] \in DOMAIN UpperToLower THEN UpperToLower[s[i]] ELSE s[i]]

\* the classes \w and \s of the re module
IsWord(c) == c \in Letters \cup DOMAIN UpperToLower
                 \cup {"0","1","2","3","4","5","6","7","8","9","_"}
IsSpace(c) == c \in {" ", "\t"}

\* the position after the longest run of \w, of \s, of [,;:] from position i
RECURSIVE WordEnd(_, _)
WordEnd(s, i) == IF i <= Len(s) /\ IsWord(s[i]) THEN WordEnd(s, i + 1) ELSE i
RECURSIVE SpaceEnd(_, _)
SpaceEnd(s, i) == IF i <= Len(s) /\ IsSpace(s[i]) THEN SpaceEnd(s, i + 1) ELSE i
RECURSIVE PunctEnd(_, _)
PunctEnd(s, i) == IF i <= Len(s) /\ s[i] \in {",", ";", ":"}
                  THEN PunctEnd(s, i + 1) ELSE i

\* str.strip()
RECURSIVE LStrip(_)
LStrip(s) == IF s # <<>> /\ IsSpace(Head(s)) THEN LStrip(Tail(s)) ELSE s
RECURSIVE RStrip(_)
RStrip(s) == IF s # <<>> /\ IsSpace(s[Len(s)])
             THEN RStrip(SubSeq(s, 1, Len(s) - 1)) ELSE s
Strip(s) == RStrip(LStrip(s))

\* s[i..] starts with lit
StartsWithAt(s, lit, i) ==
    /\ i + Len(lit) - 1 <= Len(s)
    /\ \A k \in 1..Len(lit) : s[i + k - 1] = lit[k]

(***************************************************************************)
(* The connection (core.irc.BotConnection): its nick and its config.       *)
(***************************************************************************)
ConnNick == <<"B","o","t">>
\* conn.config.get('command_prefix', '.')
CommandPrefix == <<".">>

(***************************************************************************)
(* Input (lines 19-136).  A parsed line `out` keeps the fields the engine  *)
(* reads: nick, command, paramlist.  None is Python's None.                *)
(***************************************************************************)
None == [none |-> TRUE]

\* a private-message test against the nick as it is written
ResolveChanExact(nick, paramlist) ==
    IF Lower(paramlist[1]) = ConnNick THEN nick ELSE Lower(paramlist[1])

\* lines 72-75: chan is the lowercased first parameter, or the sender's nick
\* when that is the lowercased nick of the connection
ResolveChan(nick, paramlist) ==
    IF Lower(paramlist[1]) = Lower(ConnNick) THEN nick ELSE Lower(paramlist[1])

\* Input.__init__: text is the parameter list until a route assigns it, chan
\* is the lowercased first parameter, or the sender's nick in a private message.
\* trigger = <<>> stands for None (a trigger, once set, is a non-empty word);
\* extras are the attributes added to the object after construction;
\* sieved lists the sieves that have returned this object.
NewInput(out) ==
    [nick      |-> out.nick,
     command   |-> out.command,
     paraml    |-> out.paramlist,
     lastparam |-> out.paramlist[Len(out.paramlist)],
     chan      |-> ResolveChan(out.nick, out.paramlist),
     text      |-> [kind |-> "paraml", val |-> <<>>],
     trigger   |-> <<>>,
     text_unstripped |-> <<>>,
     extras    |-> {},
     sieved    |-> <<>>]

\* the attributes every Input has: those set by __init__ and the methods
InputAttrs == {"bot", "conn", "raw", "prefix", "command", "params", "nick",
               "user", "host", "mask", "paraml", "msg", "input", "text",
               "server", "lastparam", "chan", "trigger",
               "message", "reply", "action", "ctcp", "notice", "has_permission"}

\* a hasattr that is always true
HasAttrAlways(input, name) == TRUE

\* hasattr(input, name)
HasAttr(input, name) == name \in InputAttrs \cup input.extras

\* bool(input.text): a string or a list is true when non-empty, a match
\* object always
TextTruthy(input) ==
    CASE input.text.kind = "str"    -> input.text.val # <<>>
      [] input.text.kind = "paraml" -> input.paraml # <<>>
      [] OTHER                      -> TRUE

\* a reply that prefixes the sender's nick whatever the target
ReplyPrefixed(input, message) ==
    [cmd |-> "PRIVMSG", target |-> input.chan,
     text |-> <<"(">> \o input.nick \o <<")", " ">> \o message]

\* Input.reply: the message conn.msg is called with
Reply(input, message) ==
    IF input.chan = input.nick
    THEN [cmd |-> "PRIVMSG", target |-> input.chan, text |-> message]
    ELSE [cmd |-> "PRIVMSG", target |-> input.chan,
          text |-> <<"(">> \o input.nick \o <<")", " ">> \o message]

\* Input.notice: the message conn.cmd('NOTICE', ...) is called with
Notice(input, message) ==
    [cmd |-> "NOTICE", target |-> input.nick, text |-> message]

(***************************************************************************)
(* Plugins (core.pluginmanager), read-only to the engine.  A plugin has    *)
(* its kind (CommandPlugin or not), its args dictionary, its doc (None or  *)
(* a string), the argument names of its function (inspect.getargspec) and  *)
(* the ways its function can end: return a value, return None, raise.      *)
(***************************************************************************)
DocEcho == <<"e","c","h","o"," ","<","t",">">>
DocSeen == <<"s","e","e","n"," ","<","n",">">>

PluginNames == {"echo", "help", "seen", "bad", "greet", "track", "bye", "log",
                "url", "title"}

PluginOf(p) ==
    CASE p = "echo"  -> [kind |-> "command", args |-> [name |-> "echo"],
                         doc |-> DocEcho, required |-> <<"inp">>,
                         outcomes |-> {"value"}]
      [] p = "help"  -> [kind |-> "command", args |-> [autohelp |-> TRUE],
                         doc |-> None, required |-> <<"inp", "notice">>,
                         outcomes |-> {"value", "none"}]
      [] p = "seen"  -> [kind |-> "command",
                         args |-> [autohelp |-> FALSE, singlethread |-> TRUE],
                         doc |-> DocSeen, required |-> <<"inp", "db">>,
                         outcomes |-> {"value", "raise"}]
      [] p = "bad"   -> [kind |-> "command", args |-> [autohelp |-> FALSE],
                         doc |-> DocEcho, required |-> <<"db", "bogus", "inp">>,
                         outcomes |-> {"value"}]
      [] p = "greet" -> [kind |-> "event", args |-> [name |-> "greet"],
                         doc |-> DocEcho, required |-> <<"paramlist", "nick">>,
                         outcomes |-> {"value"}]
      [] p = "track" -> [kind |-> "event", args |-> [name |-> "track"],
                         doc |-> None, required |-> <<"chan", "users">>,
                         outcomes |-> {"none"}]
      [] p = "bye"   -> [kind |-> "event", args |-> [name |-> "bye"],
                         doc |-> None, required |-> <<"nick">>,
                         outcomes |-> {"value"}]
      [] p = "log"   -> [kind |-> "event", args |-> [singlethread |-> TRUE],
                         doc |-> None, required |-> <<"paraml", "nick">>,
                         outcomes |-> {"none", "raise"}]
      [] p = "url"   -> [kind |-> "regex", args |-> [name |-> "url"],
                         doc |-> None, required |-> <<"match">>,
                         outcomes |-> {"value"}]
      [] OTHER       -> [kind |-> "regex", args |-> [singlethread |-> FALSE],
                         doc |-> DocEcho, required |-> <<"match", "text_unstripped">>,
                         outcomes |-> {"value"}]

\* dict.get(key, default)
ArgsGet(args, key, default) == IF key \in DOMAIN args THEN args[key] ELSE default

\* isinstance(plugin, CommandPlugin)
IsCommandPlugin(p) == PluginOf(p).kind = "command"

\* a dispatch that ignores singlethread
IsSingleThreadNever(p) == FALSE

\* plugin.args.get("singlethread", False)  (line 262)
IsSingleThread(p) == ArgsGet(PluginOf(p).args, "singlethread", FALSE)

(***************************************************************************)
(* The command regular expression (lines 289-296), matched with re.match:  *)
(*   ^(?:[<prefix>]|<nick>[,;:]+\s+)(\w+)(?:$|\s+)(REST)   in a channel,     *)
(*   ^(?:[<prefix>]?|<nick>[,;:]+\s+)(\w+)(?:$|\s+)(REST)  in a private      *)
(* message, REST being any characters to the end of the line.             *)
(* Alternatives are tried in order; a shorter \w+, [,;:]+ or \s+ than the  *)
(* longest never lets the rest match, so only the longest runs are tried.  *)
(***************************************************************************)
NoMatch == [ok |-> FALSE, g1 |-> <<>>, g2 |-> <<>>]

\* (\w+)(?:$|\s+)(REST) at position i
TailMatch(s, i) ==
    LET w == WordEnd(s, i) IN
    IF w = i THEN NoMatch
    ELSE IF w = Len(s) + 1
         THEN [ok |-> TRUE, g1 |-> SubSeq(s, i, w - 1), g2 |-> <<>>]
    ELSE IF IsSpace(s[w])
         THEN [ok |-> TRUE, g1 |-> SubSeq(s, i, w - 1),
               g2 |-> SubSeq(s, SpaceEnd(s, w), Len(s))]
    ELSE NoMatch

\* <nick>[,;:]+\s+ then the tail
NickMatch(s) ==
    LET n == Len(ConnNick) + 1
        p == PunctEnd(s, n)
        q == SpaceEnd(s, p)
    IN  IF StartsWithAt(s, ConnNick, 1) /\ p > n /\ q > p
        THEN TailMatch(s, q) ELSE NoMatch

\* re.match(command_re, lastparam); private is inp.chan == inp.nick
CommandRe(s, private) ==
    LET hasPrefix == s # <<>> /\ \E k \in 1..Len(CommandPrefix) : s[1] = CommandPrefix[k]
        withPrefix == IF hasPrefix THEN TailMatch(s, 2) ELSE NoMatch
        bare == IF private THEN TailMatch(s, 1) ELSE NoMatch
    IN  IF withPrefix.ok THEN withPrefix
        ELSE IF bare.ok THEN bare
        ELSE NickMatch(s)

\* regex.search(lastparam) for an expression that is a literal: the first
\* position where it occurs, 0 when it does not
RECURSIVE SearchFrom(_, _, _)
SearchFrom(lit, s, i) ==
    IF i + Len(lit) - 1 > Len(s) THEN 0
    ELSE IF StartsWithAt(s, lit, i) THEN i
    ELSE SearchFrom(lit, s, i + 1)
RegexSearch(lit, s) == SearchFrom(lit, s, 1)

(***************************************************************************)
(* main (lines 271-316): the dispatches of one parsed line, in the order   *)
(* main makes them, each with the Input it constructs for it.              *)
(***************************************************************************)
\* a lookup that gives the first plugin registered for the verb alone
EventPluginsFirstOnly(events, command) ==
    IF command \in DOMAIN events THEN SubSeq(events[command], 1, 1) ELSE <<>>

\* lines 281-282: the plugins registered for the verb of the line
EventPlugins(events, command) ==
    IF command \in DOMAIN events THEN events[command] ELSE <<>>

\* lines 281-283
EventDispatches(pm, out) ==
    LET inp == NewInput(out)
        plugins == EventPlugins(pm.events, inp.command)
    IN  [i \in 1..Len(plugins) |-> [plugin |-> plugins[i], input |-> NewInput(out)]]

\* lines 284-285
CatchAllDispatches(pm, out) ==
    [i \in 1..Len(pm.catch_all_events) |->
        [plugin |-> pm.catch_all_events[i], input |-> NewInput(out)]]

\* a lookup that accepts the beginning of a command name
FindCommandByPrefix(commands, command) ==
    {commands[key] : key \in {k \in DOMAIN commands : StartsWithAt(k, command, 1)}}

\* lines 300-301: `command in commands` and commands[command]
FindCommand(commands, command) ==
    IF command \in DOMAIN commands THEN {commands[command]} ELSE {}

\* lines 288-307
CommandDispatches(pm, out) ==
    LET inp == NewInput(out)
        match == CommandRe(inp.lastparam, inp.chan = inp.nick)
        command == Lower(match.g1)
        found == FindCommand(pm.commands, command)
    IN  IF match.ok /\ found # {}
        THEN << [plugin |-> CHOOSE plugin \in found : TRUE,
                 input  |-> [NewInput(out) EXCEPT
                               !.trigger = command,
                               !.text_unstripped = match.g2,
                               !.extras = {"text_unstripped"},
                               !.text = [kind |-> "str", val |-> Strip(match.g2)]]] >>
        ELSE <<>>

\* a loop that ends at the first expression that matches
RegexLoopBreak(regex_plugins) == <<>>

\* line 310: after a match and its dispatch the loop goes on with the next
\* (regex, plugin)
RegexLoopRest(regex_plugins) == Tail(regex_plugins)

\* one Input object used again for the next dispatch
ReusedInput(out, prior) == prior

\* line 313: Input(bot, conn, *out), a new object; prior is the Input main
\* constructed last for this line
FreshInput(out, prior) == NewInput(out)

\* lines 310-316
RECURSIVE RegexDispatches(_, _, _)
RegexDispatches(regex_plugins, out, prior) ==
    IF regex_plugins = <<>> THEN <<>>
    ELSE LET regex == Head(regex_plugins).regex
             at == RegexSearch(regex, NewInput(out).lastparam)
             input == [FreshInput(out, prior) EXCEPT
                         !.text = [kind |-> "match", val |-> regex]]
             this == IF at > 0
                     THEN << [plugin |-> Head(regex_plugins).plugin, input |-> input] >>
                     ELSE <<>>
         IN  this \o RegexDispatches(IF at > 0 THEN RegexLoopRest(regex_plugins)
                                       ELSE Tail(regex_plugins), out,
                                     IF at > 0 THEN input ELSE prior)

MainDispatches(pm, out) ==
    EventDispatches(pm, out) \o CatchAllDispatches(pm, out) \o
    (IF NewInput(out).command = "PRIVMSG"
     THEN LET commands == CommandDispatches(pm, out)
              prior == IF commands = <<>> THEN NewInput(out) ELSE commands[1].input
          IN  commands \o RegexDispatches(pm.regex_plugins, out, prior)
     ELSE <<>>)

(***************************************************************************)
(* The sieve pipeline (lines 189-202 and 252-255).  A sieve is a plugin    *)
(* function of (bot, input, plugin): it returns the input, returns an      *)
(* edited input (here: with its text emptied), returns None, or raises.    *)
(***************************************************************************)
SieveOutcomes(sieve) ==
    IF sieve = "perms" THEN {"pass", "raise"}
    ELSE {"pass", "edit", "drop"}

\* sieve.function(bot, input, plugin) when it returns (outcome # "raise")
SieveFunction(sieve, input, plugin, outcome) ==
    CASE outcome = "pass" -> [input EXCEPT !.sieved = Append(@, sieve)]
      [] outcome = "edit" -> [input EXCEPT !.sieved = Append(@, sieve),
                                           !.text = [kind |-> "str", val |-> <<>>]]
      [] OTHER            -> None

\* do_sieve that lets the input through when the sieve raises
do_sieve_fail_open(sieve, input, plugin, outcome) ==
    IF outcome = "raise" THEN [input EXCEPT !.sieved = Append(@, sieve)]
    ELSE SieveFunction(sieve, input, plugin, outcome)

\* do_sieve: an exception of the sieve is logged and None is returned
do_sieve(sieve, input, plugin, outcome) ==
    IF outcome = "raise" THEN None
    ELSE SieveFunction(sieve, input, plugin, outcome)

\* a loop that goes on after a sieve has dropped the input
RECURSIVE SieveLoopAll(_, _, _, _, _)
SieveLoopAll(sieves, k, input, plugin, outcomes) ==
    IF k > Len(sieves) THEN [input |-> input, ran |-> k - 1]
    ELSE LET next == do_sieve(sieves[k], input, plugin, outcomes[k])
         IN  SieveLoopAll(sieves, k + 1, IF next = None THEN input ELSE next,
                          plugin, outcomes)

\* the loop of lines 252-255 over sieves[k..]: the input it ends with (None
\* when a sieve dropped it) and the number of sieves that were run
RECURSIVE SieveLoop(_, _, _, _, _)
SieveLoop(sieves, k, input, plugin, outcomes) ==
    IF k > Len(sieves) THEN [input |-> input, ran |-> k - 1]
    ELSE LET next == do_sieve(sieves[k], input, plugin, outcomes[k])
         IN  IF next = None THEN [input |-> None, ran |-> k]
             ELSE SieveLoop(sieves, k + 1, next, plugin, outcomes)

\* the condition of lines 257-258
Autohelp(p, input) ==
    /\ IsCommandPlugin(p)
    /\ ArgsGet(PluginOf(p).args, "autohelp", TRUE)
    /\ ~TextTruthy(input)
    /\ PluginOf(p).doc # None

(***************************************************************************)
(* Parameter resolution of run (lines 12-16 and 161-172).                  *)
(***************************************************************************)
\* _input_name_aliases
Alias(name) ==
    CASE name = "inp"       -> "text"
      [] name = "match"     -> "text"
      [] name = "paramlist" -> "paraml"
      [] OTHER              -> name

\* the first required argument, from position k, the input has no attribute
\* for; 0 when every one resolves
RECURSIVE FirstInvalid(_, _, _)
FirstInvalid(required, k, input) ==
    IF k > Len(required) THEN 0
    ELSE IF HasAttr(input, Alias(required[k]))
         THEN FirstInvalid(required, k + 1, input)
         ELSE k

\* uses_db (line 154)
UsesDb(p) == \E k \in 1..Len(PluginOf(p).required) : PluginOf(p).required[k] = "db"

\* str(out) of the value a plugin function returns
OutValue == <<"o","k">>

(***************************************************************************)
(* The plugin managers and the parsed lines the model is run with.         *)
(***************************************************************************)
Alice == <<"a","l","i","c","e">>
Chan  == <<"#","C","h","a","n">>

Line(nick, command, paramlist) ==
    [nick |-> nick, command |-> command, paramlist |-> paramlist]

\* commands run on detached threads; ".echo hi" in a channel, "help" in a
\* private message
CommandManager ==
    [commands |-> (<<"e","c","h","o">> :> "echo") @@ (<<"h","e","l","p">> :> "help"),
     events |-> <<>>,
     catch_all_events |-> <<>>,
     regex_plugins |-> <<>>,
     sieves |-> <<"perms", "limit">>]

CommandLines ==
    { Line(Alice, "PRIVMSG", <<Chan, <<".","e","c","h","o"," ","h","i">> >>),
      Line(Alice, "PRIVMSG", <<<<"b","o","t">>, <<"h","e","l","p">> >>) }

\* two commands that use the database, one of them singlethread, the other
\* asking for a name no input has; ".SEEN bob ", "Bot: seen" and ".bad x"
OrderedManager ==
    [commands |-> (<<"s","e","e","n">> :> "seen") @@ (<<"b","a","d">> :> "bad"),
     events |-> <<>>,
     catch_all_events |-> <<>>,
     regex_plugins |-> <<>>,
     sieves |-> <<"perms">>]

OrderedLines ==
    { Line(Alice, "PRIVMSG", <<Chan, <<".","S","E","E","N"," ","b","o","b"," ">> >>),
      Line(Alice, "PRIVMSG", <<Chan, <<"B","o","t",":"," ","s","e","e","n">> >>),
      Line(Alice, "PRIVMSG", <<Chan, <<".","b","a","d"," ","x">> >>) }

\* two event plugins for JOIN, one of them asking for a name no input has, one
\* for PART, and a singlethread catch-all plugin; a JOIN, a PART and a message
EventManager ==
    [commands |-> <<>>,
     events |-> [JOIN |-> <<"greet", "track">>, PART |-> <<"bye">>],
     catch_all_events |-> <<"log">>,
     regex_plugins |-> <<>>,
     sieves |-> <<"perms">>]

EventLines ==
    { Line(Alice, "JOIN", <<Chan>>),
      Line(Alice, "PART", <<Chan>>),
      Line(Alice, "PRIVMSG", <<Chan, <<"h","i">> >>) }

\* two regex plugins and a command; "see http" and ".echo http"
RegexManager ==
    [commands |-> (<<"e","c","h","o">> :> "echo"),
     events |-> <<>>,
     catch_all_events |-> <<>>,
     regex_plugins |-> << [regex |-> <<"h","t","t","p">>, plugin |-> "url"],
                          [regex |-> <<"t","t">>, plugin |-> "title"] >>,
     sieves |-> <<"limit">>]

RegexLines ==
    { Line(Alice, "PRIVMSG", <<Chan, <<"s","e","e"," ","h","t","t","p">> >>),
      Line(Alice, "PRIVMSG", <<Chan, <<".","e","c","h","o"," ","h","t","t","p">> >>) }

\* one command, two regex plugins and no sieve; ".ECHO hi", ".echo", ".ech hi",
\* ".echos att" and "echo hi" in a channel, and ".echo http" in a NOTICE
RouteManager ==
    [commands |-> (<<"e","c","h","o">> :> "echo"),
     events |-> <<>>,
     catch_all_events |-> <<>>,
     regex_plugins |-> << [regex |-> <<"h","t","t","p">>, plugin |-> "url"],
                          [regex |-> <<"t","t">>, plugin |-> "title"] >>,
     sieves |-> <<>>]

RouteLines ==
    { Line(Alice, "PRIVMSG", <<Chan, <<".","E","C","H","O"," ","h","i">> >>),
      Line(Alice, "PRIVMSG", <<Chan, <<".","e","c","h","o">> >>),
      Line(Alice, "PRIVMSG", <<Chan, <<".","e","c","h"," ","h","i">> >>),
      Line(Alice, "PRIVMSG", <<Chan, <<".","e","c","h","o","s"," ","a","t","t">> >>),
      Line(Alice, "PRIVMSG", <<Chan, <<"e","c","h","o"," ","h","i">> >>),
      Line(Alice, "NOTICE", <<Chan, <<".","e","c","h","o"," ","h","t","t","p">> >>) }

\* a plugin manager, the lines the connection may deliver, and the number of
\* lines the routing thread is given
Scenarios ==
    { <<CommandManager, CommandLines, MaxLinesSieved>>,
      <<OrderedManager, OrderedLines, MaxLines>>,
      <<EventManager, EventLines, MaxLines>>,
      <<RegexManager, RegexLines, MaxLines>>,
      <<RouteManager, RouteLines, MaxLines>> }

(***************************************************************************)
(* The state.                                                              *)
(***************************************************************************)
VARIABLES
    running,    \* bot.running
    pm,         \* bot.plugin_manager
    feed,       \* the parsed lines the connection may deliver
    budget,     \* the number of calls of main() still to come
    rt,         \* per routing thread: the dispatches main() has still to make,
                \* the event it is dispatching (0: none) and what
                \* `plugin in bot.threads` (line 263) evaluated to
    ev,         \* per dispatch, in the order they began: plugin, input, the
                \* call of main() that made it (line), how
                \* far it got (st), the thread run() executes on (by), what
                \* the sieves that ran did, the messages sent to the
                \* connection, the sessions opened and closed
    threads,    \* bot.threads: plugin -> Handler (0: not a key)
    hs,         \* every Handler created: plugin, input_queue, position of
                \* its thread in start(), the item it holds
    enq,        \* per plugin, the events put on an input_queue, in order
    calls,      \* per plugin, the events plugin.function was called on, in order
    lines       \* the parsed lines main() was called with, in order

vars == <<running, pm, feed, budget, rt, ev, threads, hs, enq, calls, lines>>

\* the sentinel Handler.stop puts on the queue
StopIteration == 0

Idle == [pending |-> <<>>, cur |-> 0, seen |-> FALSE]

InitWith(scenarios, routers, count) ==
    /\ running = TRUE
    /\ \E scenario \in scenarios :
          /\ pm = scenario[1] /\ feed = scenario[2]
          /\ budget = IF scenario[3] < count THEN scenario[3] ELSE count
    /\ rt = [r \in routers |-> Idle]
    /\ ev = <<>>
    /\ threads = [p \in PluginNames |-> 0]
    /\ hs = <<>>
    /\ enq = [p \in PluginNames |-> <<>>]
    /\ calls = [p \in PluginNames |-> <<>>]
    /\ lines = <<>>

\* one routing thread calls main() for every line
Init == InitWith(Scenarios, {1}, MaxLines)

\* main() is called from two threads
InitConcurrent == InitWith(Scenarios, {1, 2}, MaxLinesConcurrent)

\* the scenarios in which a singlethread plugin is registered
HandlerScenarios ==
    { <<OrderedManager, OrderedLines, MaxLines>>,
      <<EventManager, EventLines, MaxLines>> }

\* one routing thread, and plugins that run on Handler threads
InitLive == InitWith(HandlerScenarios, {1}, MaxLines)

(***************************************************************************)
(* main and dispatch, on a routing thread r.                               *)
(***************************************************************************)
\* the dispatches begun, and those the calls of main() in progress will make
RECURSIVE PendingOf(_)
PendingOf(rs) ==
    IF rs = {} THEN 0
    ELSE LET r == CHOOSE x \in rs : TRUE
         IN  Len(rt[r].pending) + PendingOf(rs \ {r})
Planned == Len(ev) + PendingOf(DOMAIN rt)

\* the dispatches of the n-th call of main()
Tagged(dispatches, n) ==
    [i \in 1..Len(dispatches) |->
        [plugin |-> dispatches[i].plugin, input |-> dispatches[i].input, line |-> n]]

\* main(bot, conn, out), lines 277-316: the dispatches it will make
Main(r, out) ==
    /\ budget > 0
    /\ Planned + Len(MainDispatches(pm, out)) <= MaxEvents
    /\ rt[r].pending = <<>> /\ rt[r].cur = 0
    /\ rt' = [rt EXCEPT ![r].pending = Tagged(MainDispatches(pm, out), Len(lines) + 1)]
    /\ lines' = Append(lines, out)
    /\ budget' = budget - 1
    /\ UNCHANGED <<running, pm, feed, ev, threads, hs, enq, calls>>

\* a dispatch as it begins
NewEvent(d) ==
    [plugin |-> d.plugin, input |-> d.input, line |-> d.line,
     st |-> "new", by |-> <<"none", 0>>,
     outcomes |-> <<>>, sent |-> <<>>, opened |-> 0, closed |-> 0]

\* a registry test that forgets a Handler whose thread has ended
InThreadsAlive(p) == threads[p] # 0 /\ hs[threads[p]].pc # "stopped"

\* `plugin in bot.threads` (line 263)
InThreads(p) == threads[p] # 0

\* run(bot, plugin, input) called in place, on the routing thread
SpawnInline(r, e) == <<"router", r>>

\* the thread _thread.start_new_thread(run, ...) runs run() on (line 268)
SpawnThread(r, e) == <<"thread", e>>

\* dispatch, lines 252-263 and 268: the sieves, autohelp, and the choice of
\* the way to run the plugin; for a singlethread plugin the step ends with
\* `plugin in bot.threads` evaluated
Dispatch(r, outcomes) ==
    /\ rt[r].pending # <<>> /\ rt[r].cur = 0
    /\ LET d == Head(rt[r].pending)
           p == d.plugin
           e == Len(ev) + 1
           res == SieveLoop(pm.sieves, 1, d.input, p, outcomes)
           new == [NewEvent(d) EXCEPT !.outcomes = SubSeq(outcomes, 1, res.ran)]
       IN  IF res.input = None
           THEN /\ ev' = Append(ev, [new EXCEPT !.st = "dropped"])
                /\ rt' = [rt EXCEPT ![r].pending = Tail(@)]
           ELSE IF Autohelp(p, res.input)
           THEN /\ ev' = Append(ev, [new EXCEPT
                         !.input = res.input, !.st = "helped",
                         !.sent = <<Notice(res.input, CommandPrefix \o PluginOf(p).doc)>>])
                /\ rt' = [rt EXCEPT ![r].pending = Tail(@)]
           ELSE IF IsSingleThread(p)
           THEN /\ ev' = Append(ev, [new EXCEPT !.input = res.input, !.st = "checked"])
                /\ rt' = [rt EXCEPT ![r].pending = Tail(@), ![r].cur = e,
                                     ![r].seen = InThreads(p)]
           ELSE /\ ev' = Append(ev, [new EXCEPT !.input = res.input, !.st = "ready",
                                                !.by = SpawnThread(r, e)])
                /\ rt' = [rt EXCEPT ![r].pending = Tail(@)]
    /\ UNCHANGED <<running, pm, feed, budget, threads, hs, enq, calls, lines>>

\* line 264: bot.threads[plugin].put(input)
DispatchPut(r) ==
    /\ rt[r].cur # 0 /\ rt[r].seen
    /\ LET e == rt[r].cur
           p == ev[e].plugin
           h == threads[p]
       IN  /\ hs' = [hs EXCEPT ![h].input_queue = Append(@, e)]
           /\ enq' = [enq EXCEPT ![p] = Append(@, e)]
           /\ ev' = [ev EXCEPT ![e].st = "queued"]
    /\ rt' = [rt EXCEPT ![r].cur = 0]
    /\ UNCHANGED <<running, pm, feed, budget, threads, calls, lines>>

\* Handler.__init__ (lines 217-220): an empty queue and a thread in start()
NewHandler(p) ==
    [plugin |-> p, input_queue |-> <<>>, pc |-> "wait", item |-> StopIteration,
     stopped |-> FALSE]

\* line 266: bot.threads[plugin] = Handler(bot, plugin); the input is not
\* put on the new Handler's queue
DispatchCreate(r) ==
    /\ rt[r].cur # 0 /\ ~rt[r].seen
    /\ LET e == rt[r].cur
           p == ev[e].plugin
       IN  /\ hs' = Append(hs, NewHandler(p))
           /\ threads' = [threads EXCEPT ![p] = Len(hs) + 1]
           /\ ev' = [ev EXCEPT ![e].st = "discarded"]
    /\ rt' = [rt EXCEPT ![r].cur = 0]
    /\ UNCHANGED <<running, pm, feed, budget, enq, calls, lines>>

(***************************************************************************)
(* Handler.start (lines 222-234), the thread of Handler h.                 *)
(***************************************************************************)
\* a get() that returns the newest item
QueueGetNewest(q) == [item |-> q[Len(q)], rest |-> SubSeq(q, 1, Len(q) - 1)]

\* queue.Queue.get: the oldest item and the queue without it
QueueGet(q) == [item |-> Head(q), rest |-> Tail(q)]

\* lines 224-227: the loop is entered while bot.running, and get() returns
\* an item.  (A get() that times out goes round the loop: no change.)
HandlerGet(h) ==
    /\ hs[h].pc = "wait" /\ running /\ hs[h].input_queue # <<>>
    /\ LET got == QueueGet(hs[h].input_queue)
       IN  /\ hs' = [hs EXCEPT ![h].input_queue = got.rest, ![h].item = got.item,
                               ![h].pc = "got"]
           /\ ev' = IF got.item = StopIteration THEN ev
                    ELSE [ev EXCEPT ![got.item].st = "taken"]
    /\ UNCHANGED <<running, pm, feed, budget, rt, threads, enq, calls, lines>>

\* lines 224 and 231-232: bot.running is false at the loop, the thread ends
HandlerExit(h) ==
    /\ hs[h].pc = "wait" /\ ~running
    /\ hs' = [hs EXCEPT ![h].pc = "stopped"]
    /\ UNCHANGED <<running, pm, feed, budget, rt, ev, threads, enq, calls, lines>>

\* a test that ends the loop on the sentinel alone
ShouldBreakOnSentinel(item) == item = StopIteration

\* the condition of line 231
ShouldBreak(item) == ~running \/ item = StopIteration

\* lines 231-234 with an item: the thread ends when the bot has stopped or
\* the item is the sentinel, and calls run() otherwise
HandlerCheck(h) ==
    /\ hs[h].pc = "got"
    /\ LET e == hs[h].item
       IN  IF ShouldBreak(e)
           THEN /\ hs' = [hs EXCEPT ![h].pc = "stopped"]
                /\ ev' = IF e = StopIteration THEN ev
                         ELSE [ev EXCEPT ![e].st = "skipped"]
           ELSE /\ hs' = [hs EXCEPT ![h].pc = "run"]
                /\ ev' = [ev EXCEPT ![e].st = "ready", ![e].by = <<"handler", h>>]
    /\ UNCHANGED <<running, pm, feed, budget, rt, threads, enq, calls, lines>>

\* Handler.stop (lines 236-237), called on the Handler bot.threads holds
HandlerStop(h) ==
    /\ threads[hs[h].plugin] = h /\ ~hs[h].stopped
    /\ hs' = [hs EXCEPT ![h].input_queue = Append(@, StopIteration),
                        ![h].stopped = TRUE]
    /\ UNCHANGED <<running, pm, feed, budget, rt, ev, threads, enq, calls, lines>>

\* the bot stops: bot.running = False
BotStop ==
    /\ running
    /\ running' = FALSE
    /\ UNCHANGED <<pm, feed, budget, rt, ev, threads, hs, enq, calls, lines>>

(***************************************************************************)
(* run (lines 139-186), on the thread ev[e].by.                            *)
(***************************************************************************)
\* run() has ended on the thread of event e: a Handler thread goes back to
\* its loop when run() returned and dies when run() raised
AfterRun(e, raised) ==
    IF ev[e].by[1] = "handler"
    THEN [hs EXCEPT ![ev[e].by[2]].pc = IF raised THEN "dead" ELSE "wait"]
    ELSE hs

\* lines 145-172: the session is opened when the function asks for db, then
\* the arguments are resolved; the step ends in the call of plugin.function
\* (line 175), in the return of line 172, or in the exception of db_session()
RunBegin(e, openOk) ==
    /\ ev[e].st = "ready"
    /\ LET p == ev[e].plugin
           required == PluginOf(p).required
           input == IF UsesDb(p) THEN [ev[e].input EXCEPT !.extras = @ \cup {"db"}]
                    ELSE ev[e].input
       IN  IF UsesDb(p) /\ ~openOk
           THEN /\ ev' = [ev EXCEPT ![e].st = "crashed"]
                /\ hs' = AfterRun(e, TRUE)
                /\ calls' = calls
           ELSE IF FirstInvalid(required, 1, input) # 0
           THEN /\ ev' = [ev EXCEPT ![e].st = "aborted", ![e].input = input,
                                    ![e].opened = IF UsesDb(p) THEN 1 ELSE 0]
                /\ hs' = AfterRun(e, FALSE)
                /\ calls' = calls
           ELSE /\ ev' = [ev EXCEPT ![e].st = "calling", ![e].input = input,
                                    ![e].opened = IF UsesDb(p) THEN 1 ELSE 0]
                /\ hs' = hs
                /\ calls' = [calls EXCEPT ![p] = Append(@, e)]
    /\ UNCHANGED <<running, pm, feed, budget, rt, threads, enq, lines>>

\* run() answering whatever way plugin.function ended
ReplyOfAny(input, outcome) == <<Reply(input, OutValue)>>

\* lines 176-179 and 185-186: the messages run() sends once plugin.function
\* has ended: none when it raised or returned None
ReplyOf(input, outcome) ==
    IF outcome = "value" THEN <<Reply(input, OutValue)>> ELSE <<>>

\* lines 175-186: plugin.function ends, the session is closed when one was
\* opened (finally), and a result that is not None is sent with reply().
\* An exception of close() leaves run() through the finally.
RunFinish(e, outcome, closeOk) ==
    /\ ev[e].st = "calling"
    /\ outcome \in PluginOf(ev[e].plugin).outcomes
    /\ LET p == ev[e].plugin
           closed == IF UsesDb(p) THEN 1 ELSE 0
       IN  IF UsesDb(p) /\ ~closeOk
           THEN /\ ev' = [ev EXCEPT ![e].st = "crashed", ![e].closed = closed]
                /\ hs' = AfterRun(e, TRUE)
           ELSE /\ ev' = [ev EXCEPT
                         ![e].closed = closed,
                         ![e].st = IF outcome = "raise" THEN "raised" ELSE "returned",
                         ![e].sent = @ \o ReplyOf(ev[e].input, outcome)]
                /\ hs' = AfterRun(e, FALSE)
    /\ UNCHANGED <<running, pm, feed, budget, rt, threads, enq, calls, lines>>

(***************************************************************************)
(* The specifications.                                                     *)
(***************************************************************************)
Next ==
    \/ \E r \in DOMAIN rt, out \in feed : Main(r, out)
    \/ \E r \in DOMAIN rt :
          \E outcomes \in [1..Len(pm.sieves) -> {"pass", "edit", "drop", "raise"}] :
             /\ \A k \in 1..Len(pm.sieves) : outcomes[k] \in SieveOutcomes(pm.sieves[k])
             /\ Dispatch(r, outcomes)
    \/ \E r \in DOMAIN rt : DispatchPut(r)
    \/ \E r \in DOMAIN rt : DispatchCreate(r)
    \/ \E h \in 1..Len(hs) : HandlerGet(h)
    \/ \E h \in 1..Len(hs) : HandlerExit(h)
    \/ \E h \in 1..Len(hs) : HandlerCheck(h)
    \/ \E h \in 1..Len(hs) : HandlerStop(h)
    \/ BotStop
    \/ \E e \in 1..Len(ev), openOk \in BOOLEAN : RunBegin(e, openOk)
    \/ \E e \in 1..Len(ev), outcome \in {"value", "none", "raise"}, closeOk \in BOOLEAN :
          RunFinish(e, outcome, closeOk)

\* the engine with one routing thread
Spec == Init /\ [][Next]_vars

\* the engine with main() called from two threads
SpecConcurrent == InitConcurrent /\ [][Next]_vars

\* the steps of the thread of Handler h: the thread is scheduled, and get()
\* returns after at most its timeout of one second (line 226)
HandlerThread(h) ==
    /\ h \in 1..Len(hs)
    /\ (HandlerGet(h) \/ HandlerExit(h) \/ HandlerCheck(h))

\* the engine with one routing thread and Handler threads that keep running
SpecLive ==
    InitLive /\ [][Next]_vars /\ \A h \in 1..MaxEvents : WF_vars(HandlerThread(h))

(***************************************************************************)
(* Vocabulary of the properties.                                           *)
(***************************************************************************)
Events == 1..Len(ev)
Handlers == 1..Len(hs)
InSeq(x, seq) == \E i \in 1..Len(seq) : seq[i] = x
PosIn(x, seq) == CHOOSE i \in 1..Len(seq) : seq[i] = x

\* plugins registered with singlethread=True
OrderedPlugins ==
    {p \in PluginNames : "singlethread" \in DOMAIN PluginOf(p).args
                             /\ PluginOf(p).args.singlethread}

\* plugin.function has been called on the event
Invoked(e) == InSeq(e, calls[ev[e].plugin])
\* the event was put on a Handler's queue, or given to a thread
Enqueued(e) == InSeq(e, enq[ev[e].plugin])
Handed(e) == ev[e].by[1] # "none"
\* some sieve returned None or raised for the event
SieveDropped(e) ==
    \E k \in 1..Len(ev[e].outcomes) : ev[e].outcomes[k] \in {"drop", "raise"}
\* dispatch() has returned for the event
Dispatched(e) == ev[e].st # "checked"

(***************************************************************************)
(* C1.  When a sieve drops an event, by returning None or by raising, the  *)
(* plugin function is never called for it, it is neither queued nor given  *)
(* to a thread, and no reply or autohelp notice is sent for it.            *)
(***************************************************************************)
C1_DroppedNeverInvoked ==
    \A e \in Events :
        SieveDropped(e) =>
            /\ ~Invoked(e) /\ ~Enqueued(e) /\ ~Handed(e)
            /\ ev[e].sent = <<>>
            /\ ev[e].st = "dropped"

\* one event dropped by a sieve that raised and, main() having gone on, one
\* by a sieve that returned None after an earlier sieve passed it
C1_Witness ==
    \E e1, e2 \in Events :
        /\ ev[e1].outcomes = <<"raise">>
        /\ ev[e2].outcomes = <<"pass", "drop">>
        /\ e1 < e2

(***************************************************************************)
(* C2.  Every event dispatched to a singlethread plugin that passed the    *)
(* sieves and was not answered by autohelp is put on the queue of the      *)
(* plugin's Handler once dispatch returns, the first such event included.  *)
(* (The code creates the Handler for the first event and drops the event.) *)
(***************************************************************************)
C2_OrderedEventEnqueued ==
    \A e \in Events :
        ( /\ ev[e].plugin \in OrderedPlugins
          /\ Dispatched(e) /\ ~SieveDropped(e) /\ ev[e].st # "helped" )
        => Enqueued(e)

(***************************************************************************)
(* C3.  A singlethread plugin is called on the events put on its queue in  *)
(* the order they were put: the events still queued are the latest put,    *)
(* in order, and the calls made so far follow the order of the puts.       *)
(***************************************************************************)
QueuedEvents(h) == SelectSeq(hs[h].input_queue, LAMBDA x : x # StopIteration)

C3_OrderedFifo ==
    \A p \in OrderedPlugins :
        /\ \A i \in 1..Len(calls[p]) : InSeq(calls[p][i], enq[p])
        /\ \A i, j \in 1..Len(calls[p]) :
              i < j => PosIn(calls[p][i], enq[p]) < PosIn(calls[p][j], enq[p])
        /\ threads[p] # 0 =>
              LET q == QueuedEvents(threads[p])
              IN  /\ Len(q) <= Len(enq[p])
                  /\ q = SubSeq(enq[p], Len(enq[p]) - Len(q) + 1, Len(enq[p]))

\* a singlethread plugin has been called on two events
C3_Witness == \E p \in OrderedPlugins : Len(calls[p]) >= 2

(***************************************************************************)
(* C4.  At most one event of a singlethread plugin is between its removal  *)
(* from the queue and the end of run(): calls of the plugin do not         *)
(* overlap, and the next event is not taken while a call is in progress.   *)
(***************************************************************************)
InProgress(p) ==
    {e \in Events : ev[e].plugin = p /\ ev[e].st \in {"taken", "ready", "calling"}}

C4_OneAtATime == \A p \in OrderedPlugins : Cardinality(InProgress(p)) <= 1

\* a singlethread plugin is being called while another event waits in its queue
C4_Witness ==
    \E e \in Events :
        /\ ev[e].plugin \in OrderedPlugins /\ ev[e].st = "calling"
        /\ QueuedEvents(threads[ev[e].plugin]) # <<>>

(***************************************************************************)
(* C5.  At most one Handler is ever created for a plugin, also when main() *)
(* is called from two threads.  (The code tests `plugin in bot.threads`    *)
(* and creates the Handler in two steps, without a lock.)                  *)
(***************************************************************************)
C5_OneHandlerPerPlugin ==
    \A p \in PluginNames : Cardinality({h \in Handlers : hs[h].plugin = p}) <= 1

(***************************************************************************)
(* C6.  Whenever run() has ended for an event, it has closed as many       *)
(* database sessions as it opened.  (The return of line 172 is outside     *)
(* the try/finally that closes the session.)                               *)
(***************************************************************************)
RunEnded(e) == ev[e].st \in {"aborted", "returned", "raised", "crashed"}

C6_SessionClosed ==
    \A e \in Events : RunEnded(e) => ev[e].opened = ev[e].closed

(***************************************************************************)
(* C7.  No failure while an event is processed ends a Handler thread: a    *)
(* Handler thread is never ended by an exception.  (An exception of        *)
(* db_session() or of close() leaves run() and ends the thread.)           *)
(***************************************************************************)
C7_HandlerAlive == \A h \in Handlers : hs[h].pc # "dead"

(***************************************************************************)
(* C8.  When a plugin function declares a name that is not an alias and    *)
(* not an attribute of the input, run() returns without calling the        *)
(* function and without sending a reply.                                   *)
(***************************************************************************)
Unresolvable(e) ==
    LET required == PluginOf(ev[e].plugin).required
        fields == InputAttrs \cup ev[e].input.extras
                    \cup (IF InSeq("db", required) THEN {"db"} ELSE {})
    IN  \E k \in 1..Len(required) :
            /\ required[k] \notin {"inp", "match", "paramlist"}
            /\ required[k] \notin fields

C8_InvalidArgumentNoCall ==
    \A e \in Events :
        Unresolvable(e) =>
            /\ ~Invoked(e)
            /\ ev[e].st \notin {"calling", "returned", "raised"}
            /\ \A k \in 1..Len(ev[e].sent) : ev[e].sent[k].cmd # "PRIVMSG"

\* run() has returned at line 172 for a plugin that asks for "bogus"
C8_Witness ==
    \E e \in Events :
        ev[e].plugin = "bad" /\ ev[e].st = "aborted" /\ Unresolvable(e)

(***************************************************************************)
(* C9.  For an event that passed the sieves, autohelp is taken exactly     *)
(* when the plugin is a command plugin, its autohelp argument is true or   *)
(* unset, the text is empty and the doc is not None.  When it is taken,    *)
(* the notice prefix + doc is sent and the plugin is neither queued nor    *)
(* called; when it is not, no notice is sent and the event is put on the   *)
(* plugin's queue or given to a thread.                                    *)
(* (The last part fails for the first event of a singlethread plugin, the  *)
(* event C2 is about; the rest is AutohelpExactly, which holds.)           *)
(***************************************************************************)
AutohelpCase(e) ==
    LET plugin == PluginOf(ev[e].plugin)
    IN  /\ plugin.kind = "command"
        /\ ("autohelp" \notin DOMAIN plugin.args \/ plugin.args.autohelp)
        /\ ev[e].input.text.kind = "str" /\ ev[e].input.text.val = <<>>
        /\ plugin.doc # None

AutohelpExactly ==
    \A e \in Events :
        (~SieveDropped(e) /\ Dispatched(e)) =>
            /\ ev[e].st = "helped" <=> AutohelpCase(e)
            /\ ev[e].st = "helped" =>
                  /\ ev[e].sent = << [cmd |-> "NOTICE", target |-> ev[e].input.nick,
                                      text |-> CommandPrefix \o PluginOf(ev[e].plugin).doc] >>
                  /\ ~Enqueued(e) /\ ~Handed(e) /\ ~Invoked(e)
            /\ ev[e].st # "helped" =>
                  \A k \in 1..Len(ev[e].sent) : ev[e].sent[k].cmd # "NOTICE"

C9_AutohelpOrDispatch ==
    /\ AutohelpExactly
    /\ \A e \in Events :
          (~SieveDropped(e) /\ Dispatched(e) /\ ev[e].st # "helped") =>
              (Enqueued(e) \/ Handed(e))

(***************************************************************************)
(* C10.  run() never executes on a routing thread: every event run() was   *)
(* entered for is on the thread of the Handler of its plugin, or on a      *)
(* thread started for that event alone.                                    *)
(***************************************************************************)
C10_NeverOnRoutingThread ==
    \A e \in Events :
        /\ ev[e].by[1] # "router"
        /\ (RunEnded(e) \/ ev[e].st \in {"ready", "calling"}) =>
              \/ ev[e].by = <<"thread", e>>
              \/ /\ ev[e].by[1] = "handler"
                 /\ ev[e].by[2] \in Handlers
                 /\ hs[ev[e].by[2]].plugin = ev[e].plugin

\* one plugin called on a Handler thread and one on a thread of its own
C10_Witness ==
    \E e1, e2 \in Events :
        /\ Invoked(e1) /\ ev[e1].by[1] = "handler"
        /\ Invoked(e2) /\ ev[e2].by[1] = "thread"

(***************************************************************************)
(* C11.  A Handler thread that has taken the sentinel of stop() from its   *)
(* queue, or that is waiting on its queue when bot.running is false,       *)
(* eventually ends; and the end is permanent: the thread takes nothing     *)
(* more from the queue, the plugin is not called on another event by it,   *)
(* the registry keeps the Handler and no other Handler is created for the  *)
(* plugin.                                                                 *)
(***************************************************************************)
MustStop(h) ==
    /\ h \in Handlers
    /\ \/ hs[h].pc = "got" /\ hs[h].item = StopIteration
       \/ hs[h].pc = "wait" /\ ~running

Stopped(h) == h \in Handlers /\ hs[h].pc = "stopped"

StoppedForGood(h) ==
    Stopped(h) =>
        /\ hs'[h].pc = "stopped"
        /\ Len(hs'[h].input_queue) >= Len(hs[h].input_queue)
        /\ calls'[hs[h].plugin] = calls[hs[h].plugin]
        /\ threads'[hs[h].plugin] = threads[hs[h].plugin]
        /\ \A g \in 1..Len(hs') : g > Len(hs) => hs'[g].plugin # hs[h].plugin

C11_StoppedIsTerminal ==
    /\ \A h \in 1..MaxEvents : MustStop(h) ~> Stopped(h)
    /\ [][\A h \in Handlers : StoppedForGood(h)]_vars

\* a Handler thread has ended on the sentinel while the bot runs, and an
\* event dispatched to its plugin afterwards lies in its queue
C11_Witness ==
    \E h \in Handlers :
        /\ running /\ hs[h].pc = "stopped" /\ hs[h].item = StopIteration
        /\ QueuedEvents(h) # <<>>

(***************************************************************************)
(* C12.  Once bot.running is false no Handler thread goes on to call run() *)
(* for another event: the event a thread holds when it finds the flag      *)
(* false is skipped and the plugin is never called on it, and nothing is   *)
(* taken from a queue any more.  An event for which the thread had already *)
(* passed the test of line 231 is not interrupted: it stays in run() until *)
(* run() ends.                                                             *)
(***************************************************************************)
OnHandler(e) == ev[e].by[1] = "handler"

NoNewInvocation ==
    ~running =>
        /\ \A h \in Handlers : hs'[h].pc = "run" => hs[h].pc = "run"
        /\ \A h \in Handlers : hs'[h].pc = "got" => hs[h].pc = "got"
        /\ \A e \in Events : (OnHandler(e)' /\ ev'[e].st = "ready") => OnHandler(e)

NotPreempted ==
    \A e \in Events :
        (OnHandler(e) /\ ev[e].st \in {"ready", "calling"}) =>
            /\ ev'[e].st \in {"ready", "calling", "aborted", "returned", "raised", "crashed"}
            /\ ev'[e].st \in {"ready", "calling"} => hs'[ev[e].by[2]].pc = "run"

C12_NoInvocationAfterStop ==
    /\ [][NoNewInvocation /\ NotPreempted]_vars
    /\ [](\A e \in Events : ev[e].st = "skipped" => ~Invoked(e) /\ ev[e].sent = <<>>)

\* the bot has stopped, one event was skipped by the Handler thread that held
\* it and the plugin had been called on an earlier event
C12_Witness ==
    /\ ~running
    /\ \E e \in Events : ev[e].st = "skipped" /\ calls[ev[e].plugin] # <<>>

(***************************************************************************)
(* C13.  No message is sent to the connection for an event whose           *)
(* processing ended in a failure: a sieve that raised (or returned None),  *)
(* an argument that did not resolve, an exception of the plugin function   *)
(* or of the session.  A message is sent only by autohelp (one notice) and *)
(* by run() after the plugin function returned a value (one reply).        *)
(***************************************************************************)
Failed(e) ==
    \/ SieveDropped(e)
    \/ ev[e].st \in {"dropped", "aborted", "raised", "crashed"}

C13_FailuresAreSilent ==
    \A e \in Events :
        /\ Failed(e) => ev[e].sent = <<>>
        /\ ev[e].sent # <<>> =>
              /\ Len(ev[e].sent) = 1
              /\ \/ ev[e].st = "helped" /\ ev[e].sent[1].cmd = "NOTICE" /\ ~Invoked(e)
                 \/ ev[e].st = "returned" /\ ev[e].sent[1].cmd = "PRIVMSG" /\ Invoked(e)

\* one event ended by a sieve that raised, one by an argument that did not
\* resolve and one by an exception of the plugin function
C13_Witness ==
    \E e1, e2, e3 \in Events :
        /\ ev[e1].st = "dropped" /\ ev[e1].outcomes[Len(ev[e1].outcomes)] = "raise"
        /\ ev[e2].st = "aborted"
        /\ ev[e3].st = "raised"

(***************************************************************************)
(* C14.  The reply run() sends for a value the plugin function returned    *)
(* goes to the chan of the event's input; its text is str(value) alone     *)
(* when chan is the sender's nick and "(nick) " followed by str(value)     *)
(* otherwise.  A plugin function that always returns a value is answered   *)
(* once run() has returned.                                                *)
(***************************************************************************)
Replies(e) == SelectSeq(ev[e].sent, LAMBDA m : m.cmd = "PRIVMSG")

C14_ReplyFormat ==
    \A e \in Events :
        LET nick == ev[e].input.nick
            target == ev[e].input.chan
        IN  /\ \A k \in 1..Len(Replies(e)) :
                  /\ Replies(e)[k].target = target
                  /\ target = nick => Replies(e)[k].text = <<"o","k">>
                  /\ target # nick =>
                        Replies(e)[k].text = <<"(">> \o nick \o <<")", " ", "o", "k">>
            /\ (ev[e].st = "returned" /\ PluginOf(ev[e].plugin).outcomes = {"value"})
                  => Len(Replies(e)) = 1

\* a reply in a private message and a reply in a channel
C14_Witness ==
    \E e1, e2 \in Events :
        /\ Replies(e1) # <<>> /\ Replies(e1)[1].target = Alice
        /\ Replies(e2) # <<>> /\ Replies(e2)[1].target = <<"#","c","h","a","n">>

(***************************************************************************)
(* C15.  The chan of every input is a function of the line alone: the      *)
(* sender's nick when the first parameter is the connection's nick up to   *)
(* the case of letters, else the first parameter with its capital letters  *)
(* replaced by small ones.                                                 *)
(***************************************************************************)
SameLetter(a, b) ==
    \/ a = b
    \/ a \in DOMAIN UpperToLower /\ UpperToLower[a] = b
    \/ b \in DOMAIN UpperToLower /\ UpperToLower[b] = a

EqualIgnoringCase(s, t) ==
    Len(s) = Len(t) /\ \A i \in 1..Len(s) : SameLetter(s[i], t[i])

IsLowercased(s, t) ==
    /\ EqualIgnoringCase(s, t)
    /\ \A i \in 1..Len(s) : s[i] \notin DOMAIN UpperToLower

ChanResolved(input) ==
    LET first == input.paraml[1]
    IN  /\ EqualIgnoringCase(first, ConnNick) => input.chan = input.nick
        /\ ~EqualIgnoringCase(first, ConnNick) => IsLowercased(input.chan, first)

\* of the input main() constructs for a line (line 277), and of the input of
\* every dispatch
C15_TargetResolution ==
    /\ \A out \in feed : ChanResolved(NewInput(out))
    /\ \A e \in Events : ChanResolved(ev[e].input)

\* "bot" to the connection "Bot" gave the sender's nick, "#Chan" gave "#chan"
C15_Witness ==
    \E e1, e2 \in Events :
        /\ ev[e1].input.paraml[1] = <<"b","o","t">> /\ ev[e1].input.chan = Alice
        /\ ev[e2].input.paraml[1] = Chan /\ ev[e2].input.chan = <<"#","c","h","a","n">>

(***************************************************************************)
(* Vocabulary of the properties about routing: the events of one call of   *)
(* main(), and the token a command is looked up by.                        *)
(***************************************************************************)
Lines == 1..Len(lines)
EventsOf(n) == {e \in Events : ev[e].line = n}
\* main() has made every dispatch of its n-th call
Routed(n) ==
    \A r \in DOMAIN rt : \A i \in 1..Len(rt[r].pending) : rt[r].pending[i].line # n

\* the last parameter of a line, the text of a message
LastParam(out) == out.paramlist[Len(out.paramlist)]

\* the line is a private message to the connection
Private(out) ==
    \/ EqualIgnoringCase(out.paramlist[1], ConnNick)
    \/ IsLowercased(out.nick, out.paramlist[1])

\* the positions of s a command token may start at: after the prefix
\* character, at the start of a private message, and after the connection's
\* nick followed by some of , ; : and some white space
TokenStarts(s, private) ==
    (IF s # <<>> /\ s[1] = "." THEN {2} ELSE {})
    \cup (IF private THEN {1} ELSE {})
    \cup {b \in 1..Len(s) + 1 :
            \E a \in 1..Len(s) :
                /\ Len(ConnNick) + 1 < a /\ a < b
                /\ SubSeq(s, 1, Len(ConnNick)) = ConnNick
                /\ \A i \in Len(ConnNick) + 1..a - 1 : s[i] \in {",", ";", ":"}
                /\ \A i \in a..b - 1 : s[i] \in {" ", "\t"}
                /\ (b <= Len(s) => s[b] \notin {" ", "\t"})}

\* the token of s at position i: up to the next white space or the end
TokenAt(s, i) ==
    LET ends == {j \in i..Len(s) + 1 :
                    /\ \A k \in i..j - 1 : s[k] \notin {" ", "\t"}
                    /\ (j <= Len(s) => s[j] \in {" ", "\t"})}
    IN  SubSeq(s, i, (CHOOSE j \in ends : TRUE) - 1)

\* the command plugins a line names: its lowercased first token after the
\* trigger is a key of the command table
CommandsNamed(out) ==
    IF out.command # "PRIVMSG" THEN {}
    ELSE LET s == out.paramlist[Len(out.paramlist)]
             tokens == {Lower(TokenAt(s, i)) : i \in TokenStarts(s, Private(out))}
         IN  {pm.commands[key] : key \in tokens \cap DOMAIN pm.commands}

(***************************************************************************)
(* C16.  One call of main() dispatches at most one command plugin, and     *)
(* only the one the line names: the line is a PRIVMSG and its lowercased   *)
(* first token after the trigger is a key of the command table.  A line    *)
(* whose token is not a key, or that is not a PRIVMSG, dispatches no       *)
(* command plugin; a line that names one dispatches it.                    *)
(***************************************************************************)
CommandEvents(n) == {e \in EventsOf(n) : PluginOf(ev[e].plugin).kind = "command"}

C16_OneCommandPerLine ==
    \A n \in Lines :
        /\ Cardinality(CommandEvents(n)) <= 1
        /\ \A e \in CommandEvents(n) : ev[e].plugin \in CommandsNamed(lines[n])
        /\ (Routed(n) /\ CommandsNamed(lines[n]) # {}) => CommandEvents(n) # {}

\* ".ECHO hi" dispatched echo; ".ech hi" and a NOTICE ".echo http" dispatched
\* nothing
C16_Witness ==
    \E n1, n2, n3 \in Lines :
        /\ Routed(n1) /\ Routed(n2) /\ Routed(n3)
        /\ LastParam(lines[n1]) = <<".","E","C","H","O"," ","h","i">>
        /\ \E e \in CommandEvents(n1) : ev[e].plugin = "echo"
        /\ LastParam(lines[n2]) = <<".","e","c","h"," ","h","i">>
        /\ EventsOf(n2) = {}
        /\ lines[n3].command = "NOTICE" /\ EventsOf(n3) = {}

(***************************************************************************)
(* C17.  For a PRIVMSG every (regex, plugin) registered whose expression   *)
(* occurs in the last parameter is dispatched once, with an input whose    *)
(* text is the match of that expression (until a sieve replaces it),       *)
(* whether or not other expressions or a command matched the same line; an *)
(* expression that does not occur dispatches nothing, and no regex plugin  *)
(* is dispatched for another verb.                                         *)
(***************************************************************************)
Occurs(lit, s) ==
    \E i \in 1..Len(s) - Len(lit) + 1 : SubSeq(s, i, i + Len(lit) - 1) = lit

RegexEvents(n, k) ==
    {e \in EventsOf(n) : /\ ev[e].plugin = pm.regex_plugins[k].plugin
                         /\ PluginOf(ev[e].plugin).kind = "regex"}

C17_EveryMatchDispatched ==
    \A n \in Lines : \A k \in 1..Len(pm.regex_plugins) :
        LET last == lines[n].paramlist[Len(lines[n].paramlist)]
            matches == /\ lines[n].command = "PRIVMSG"
                       /\ Occurs(pm.regex_plugins[k].regex, last)
        IN  /\ Cardinality(RegexEvents(n, k)) <= 1
            /\ ~matches => RegexEvents(n, k) = {}
            /\ (matches /\ Routed(n)) => Cardinality(RegexEvents(n, k)) = 1
            /\ \A e \in RegexEvents(n, k) :
                  (\A j \in 1..Len(ev[e].outcomes) : ev[e].outcomes[j] # "edit") =>
                      ev[e].input.text = [kind |-> "match",
                                          val |-> pm.regex_plugins[k].regex]

\* ".echo http" dispatched the command and both regex plugins
C17_Witness ==
    \E n \in Lines :
        /\ Routed(n)
        /\ LastParam(lines[n]) = <<".","e","c","h","o"," ","h","t","t","p">>
        /\ {ev[e].plugin : e \in EventsOf(n)} = {"echo", "url", "title"}
        /\ Cardinality(EventsOf(n)) = 3

(***************************************************************************)
(* C18.  One call of main() dispatches an event plugin once for each of    *)
(* its registrations under the verb of the line and once for each of its   *)
(* registrations as a catch-all, whatever the verb; a plugin registered    *)
(* under another verb only is not dispatched.                              *)
(***************************************************************************)
Count(seq, x) == Cardinality({i \in 1..Len(seq) : seq[i] = x})

Registrations(out, p) ==
    (IF out.command \in DOMAIN pm.events THEN Count(pm.events[out.command], p) ELSE 0)
    + Count(pm.catch_all_events, p)

EventPluginNames == {p \in PluginNames : PluginOf(p).kind = "event"}

C18_EventMatching ==
    \A n \in Lines : \A p \in EventPluginNames :
        LET dispatched == Cardinality({e \in EventsOf(n) : ev[e].plugin = p})
        IN  /\ dispatched <= Registrations(lines[n], p)
            /\ Routed(n) => dispatched = Registrations(lines[n], p)

\* a JOIN dispatched both plugins registered for JOIN and the catch-all, and
\* a PRIVMSG the catch-all alone
C18_Witness ==
    \E n1, n2 \in Lines :
        /\ Routed(n1) /\ Routed(n2)
        /\ lines[n1].command = "JOIN"
        /\ {ev[e].plugin : e \in EventsOf(n1)} = {"greet", "track", "log"}
        /\ lines[n2].command = "PRIVMSG"
        /\ {ev[e].plugin : e \in EventsOf(n2)} = {"log"}

(***************************************************************************)
(* C19.  dispatch runs the sieves in the order of bot.plugin_manager       *)
(* .sieves, each on the input the one before returned, and stops at the    *)
(* first that returns None or raises.  An event that goes on to autohelp   *)
(* or to the plugin was returned by every sieve, in that order, and goes   *)
(* on as the last sieve returned it: a text a sieve emptied is the text    *)
(* autohelp tests.                                                         *)
(***************************************************************************)
Drops(outcome) == outcome \in {"drop", "raise"}

C19_SievesInOrder ==
    \A e \in Events :
        LET o == ev[e].outcomes
        IN  /\ Len(o) <= Len(pm.sieves)
            /\ \A k \in 1..Len(o) : o[k] \in SieveOutcomes(pm.sieves[k])
            /\ \A k \in 1..Len(o) - 1 : ~Drops(o[k])
            /\ (o # <<>> /\ Drops(o[Len(o)])) =>
                  ev[e].st = "dropped" /\ ev[e].input.sieved = <<>>
            /\ (o = <<>> \/ ~Drops(o[Len(o)])) =>
                  /\ Len(o) = Len(pm.sieves)
                  /\ ev[e].input.sieved = pm.sieves
                  /\ ev[e].st # "dropped"
                  /\ (\E k \in 1..Len(o) : o[k] = "edit") =>
                        /\ ev[e].input.text = [kind |-> "str", val |-> <<>>]
                        /\ (ev[e].plugin = "echo" => ev[e].st = "helped")

\* ".echo hi" went through both sieves, the second emptied its text, and
\* autohelp answered it
C19_Witness ==
    \E e \in Events :
        /\ ev[e].plugin = "echo" /\ ev[e].input.text_unstripped = <<"h","i">>
        /\ ev[e].outcomes = <<"pass", "edit">>
        /\ ev[e].input.sieved = <<"perms", "limit">>
        /\ ev[e].st = "helped"

(***************************************************************************)
(* C20.  Every dispatch of a line has an input of its own, constructed     *)
(* from the line: the trigger, text and text_unstripped main() sets for    *)
(* the command plugin are not in the input of an event or regex plugin of  *)
(* the same line, and the match set for one regex plugin is not the text   *)
(* of another.  Until a sieve replaces it, the text of an event plugin's   *)
(* input is the parameter list, that of a regex plugin's its own match.    *)
(***************************************************************************)
Unedited(e) == \A k \in 1..Len(ev[e].outcomes) : ev[e].outcomes[k] # "edit"

RegexesOf(p) ==
    {pm.regex_plugins[k].regex :
        k \in {j \in 1..Len(pm.regex_plugins) : pm.regex_plugins[j].plugin = p}}

C20_FreshInputPerDispatch ==
    \A e \in Events :
        LET input == ev[e].input
            out == lines[ev[e].line]
            kind == PluginOf(ev[e].plugin).kind
        IN  /\ input.nick = out.nick /\ input.command = out.command
            /\ input.paraml = out.paramlist
            /\ kind # "command" =>
                  /\ input.trigger = <<>>
                  /\ input.text_unstripped = <<>>
                  /\ "text_unstripped" \notin input.extras
            /\ (kind = "event" /\ Unedited(e)) => input.text.kind = "paraml"
            /\ (kind = "regex" /\ Unedited(e)) =>
                  input.text.kind = "match" /\ input.text.val \in RegexesOf(ev[e].plugin)
            /\ kind = "command" =>
                  /\ input.trigger # <<>> /\ pm.commands[input.trigger] = ev[e].plugin
                  /\ Unedited(e) => input.text.kind = "str"

\* ".echo http": the command's input has the trigger and the stripped text,
\* the inputs of the two regex plugins have no trigger and each its own match
C20_Witness ==
    \E e1, e2, e3 \in Events :
        /\ ev[e1].line = ev[e2].line /\ ev[e2].line = ev[e3].line
        /\ ev[e1].plugin = "echo" /\ ev[e1].input.trigger = <<"e","c","h","o">>
        /\ ev[e1].input.text = [kind |-> "str", val |-> <<"h","t","t","p">>]
        /\ ev[e2].plugin = "url" /\ ev[e2].input.trigger = <<>>
        /\ ev[e2].input.text = [kind |-> "match", val |-> <<"h","t","t","p">>]
        /\ ev[e3].plugin = "title" /\ ev[e3].input.trigger = <<>>
        /\ ev[e3].input.text = [kind |-> "match", val |-> <<"t","t">>]

====
